---- MODULE Spec2Model ----
(***************************************************************************)
(* Homograph detection of vhdl_parser/src/semantic.rs.                     *)
(*                                                                         *)
(* The analyzer walks a design root: for every entity it builds a          *)
(* declarative region from the generic clause, the port clause and the     *)
(* declarative part, and checks every architecture against a clone of it;  *)
(* for every package it builds a region from the generic clause and the    *)
(* declarative part and checks the body against a clone of it.  The        *)
(* design root is revealed while it is walked: every step of a loop over   *)
(* a declaration list draws the next declaration of that list.             *)
(*                                                                         *)
(* The model follows analyze through one primary unit of the library, an   *)
(* entity with its architectures or a package with its body: every         *)
(* primary unit starts from DeclarativeRegion::new and the sink is only    *)
(* appended to, so the walk of one primary unit does not depend on the     *)
(* units walked before it.                                                 *)
(*                                                                         *)
(* Spec        the regions of a primary unit and its secondary units       *)
(* SpecContext the library clauses of the context clauses of the units     *)
(* SpecScopes  the nested declarative and concurrent scopes of one unit    *)
(* SpecList    one declarative part or interface list, the declarations    *)
(*             kept with the items they contribute                         *)
(***************************************************************************)
EXTENDS Integers, Sequences, FiniteSets, TLC

\* ------------------------------------------------------------------ bounds
\* declarations of the primary unit and its secondary units, all lists
\* together
MaxDecls == 3
\* architectures of the entity
MaxArchs == 2

\* the identifiers a declaration can be named with
Names == {"a", "b"}

\* --------------------------------------------------------------- the AST
ObjectClasses == {"Constant", "Signal", "Variable", "SharedVariable"}

\* ast::Declaration, as far as declarative_items looks at it
Declarations ==
       { [kind |-> "Alias", ident |-> x, signature |-> s] :
            x \in Names, s \in BOOLEAN }
  \cup { [kind |-> "Object", ident |-> x, class |-> c, expression |-> e] :
            x \in Names, c \in ObjectClasses, e \in BOOLEAN }
  \cup { [kind |-> k, ident |-> x] :
            k \in {"File", "Component", "AttributeDeclaration", "Package",
                   "SubprogramBody", "SubprogramDeclaration"},
            x \in Names }
  \cup { [kind |-> k] :
            k \in {"AttributeSpecification", "Use", "Configuration"} }
  \cup { [kind |-> "Type", ident |-> x, def |-> d] :
            x \in Names,
            d \in {"ProtectedBody", "Incomplete", "Protected", "Record",
                   "Other"} }
  \cup { [kind |-> "Type", ident |-> x, def |-> "Enumeration",
          literals |-> <<l>>] : x \in Names, l \in Names }

\* ast::InterfaceDeclaration; an interface object has a class and may have
\* a default expression
InterfaceDeclarations ==
       { [kind |-> k, ident |-> x] :
            k \in {"File", "Type", "Subprogram", "Package"}, x \in Names }
  \cup { [kind |-> "Object", ident |-> x, class |-> c, expression |-> e] :
            x \in Names, c \in {"Constant", "Signal", "Variable"},
            e \in BOOLEAN }

\* a source position: the design unit (its kind and number), the part of
\* the unit, the number of the declaration in the design root and the place
\* inside the declaration (0 its name, i the i-th enumeration literal)
Pos(unit, no, part, idx) ==
  [unit |-> unit, no |-> no, part |-> part, idx |-> idx, sub |-> 0]

\* ------------------------------------------------------- DeclarativeItem
DeclarativeItem(designator, pos) ==
  [designator |-> designator, pos |-> pos,
   may_overload |-> FALSE, is_deferred |-> FALSE]

with_overload(item, value) == [item EXCEPT !.may_overload = value]

with_deferred(item, value) == [item EXCEPT !.is_deferred = value]

\* declarative_items with an item for an incomplete type and for a
\* protected type body
declarative_items_every_type(decl, at) ==
  CASE decl.kind = "Alias" ->
         << with_overload(DeclarativeItem(decl.ident, at), decl.signature) >>
    [] decl.kind = "Object" ->
         << with_deferred(DeclarativeItem(decl.ident, at),
                          decl.class = "Constant" /\ ~decl.expression) >>
    [] decl.kind \in {"AttributeSpecification", "Use", "Configuration"} ->
         << >>
    [] decl.kind \in {"SubprogramBody", "SubprogramDeclaration"} ->
         << with_overload(DeclarativeItem(decl.ident, at), TRUE) >>
    [] decl.kind = "Type" /\ decl.def = "Enumeration" ->
         << DeclarativeItem(decl.ident, at) >>
         \o [i \in 1..Len(decl.literals) |->
               with_overload(
                 DeclarativeItem(decl.literals[i], [at EXCEPT !.sub = i]),
                 TRUE)]
    [] OTHER ->
         << DeclarativeItem(decl.ident, at) >>

\* Declaration::declarative_items; at is the position of the declaration
declarative_items(decl, at) ==
  CASE decl.kind = "Alias" ->
         << with_overload(DeclarativeItem(decl.ident, at), decl.signature) >>
    [] decl.kind = "Object" ->
         << with_deferred(DeclarativeItem(decl.ident, at),
                          decl.class = "Constant" /\ ~decl.expression) >>
    [] decl.kind \in {"File", "Component", "AttributeDeclaration", "Package"} ->
         << DeclarativeItem(decl.ident, at) >>
    [] decl.kind \in {"AttributeSpecification", "Use", "Configuration"} ->
         << >>
    [] decl.kind \in {"SubprogramBody", "SubprogramDeclaration"} ->
         << with_overload(DeclarativeItem(decl.ident, at), TRUE) >>
    [] decl.kind = "Type" /\ decl.def \in {"ProtectedBody", "Incomplete"} ->
         << >>
    [] decl.kind = "Type" /\ decl.def = "Enumeration" ->
         << DeclarativeItem(decl.ident, at) >>
         \o [i \in 1..Len(decl.literals) |->
               with_overload(
                 DeclarativeItem(decl.literals[i], [at EXCEPT !.sub = i]),
                 TRUE)]
    [] OTHER ->
         << DeclarativeItem(decl.ident, at) >>

\* InterfaceDeclaration::declarative_items
interface_declarative_items(decl, at) ==
  IF decl.kind = "Subprogram"
  THEN << with_overload(DeclarativeItem(decl.ident, at), TRUE) >>
  ELSE << DeclarativeItem(decl.ident, at) >>

\* ----------------------------------------------------- DeclarativeRegion
\* DeclarativeRegion::new: the empty map
NewRegion == [x \in {} |-> x]

\* Message::error(..).related(..)
DuplicateDeclaration(decl, old_decl) ==
  [severity |-> "Error", pos |-> decl.pos, designator |-> decl.designator,
   related |-> old_decl.pos]

\* HashMap insert / replace of the entry of one key
Insert(decls, decl) ==
  [x \in DOMAIN decls \cup {decl.designator} |->
     IF x = decl.designator THEN decl ELSE decls[x]]

\* add without the completion of a deferred constant: every collision of
\* two items that may not both overload is a duplicate
add_no_completion(st, decl) ==
  IF decl.designator \in DOMAIN st.decls
  THEN LET old_decl == st.decls[decl.designator] IN
       IF ~decl.may_overload \/ ~old_decl.may_overload
       THEN [st EXCEPT !.messages =
               Append(st.messages, DuplicateDeclaration(decl, old_decl))]
       ELSE st
  ELSE [st EXCEPT !.decls = Insert(st.decls, decl)]

\* add completing a deferred entry by whatever comes next, a deferred
\* constant included
add_completes_deferred(st, decl) ==
  IF decl.designator \in DOMAIN st.decls
  THEN LET old_decl == st.decls[decl.designator] IN
       IF ~decl.may_overload \/ ~old_decl.may_overload
       THEN IF old_decl.is_deferred
            THEN [st EXCEPT !.decls = Insert(st.decls, decl)]
            ELSE [st EXCEPT !.messages =
                    Append(st.messages, DuplicateDeclaration(decl, old_decl))]
       ELSE st
  ELSE [st EXCEPT !.decls = Insert(st.decls, decl)]

\* add where the reported duplicate also takes the entry (last writer wins)
add_last_writer(st, decl) ==
  IF decl.designator \in DOMAIN st.decls
  THEN LET old_decl == st.decls[decl.designator] IN
       IF ~decl.may_overload \/ ~old_decl.may_overload
       THEN IF ~decl.is_deferred /\ old_decl.is_deferred
            THEN [st EXCEPT !.decls = Insert(st.decls, decl)]
            ELSE [decls |-> Insert(st.decls, decl),
                  messages |->
                    Append(st.messages, DuplicateDeclaration(decl, old_decl))]
       ELSE st
  ELSE [st EXCEPT !.decls = Insert(st.decls, decl)]

\* add that does not look at may_overload
add_no_overload(st, decl) ==
  IF decl.designator \in DOMAIN st.decls
  THEN LET old_decl == st.decls[decl.designator] IN
       IF ~decl.is_deferred /\ old_decl.is_deferred
       THEN [st EXCEPT !.decls = Insert(st.decls, decl)]
       ELSE [st EXCEPT !.messages =
               Append(st.messages, DuplicateDeclaration(decl, old_decl))]
  ELSE [st EXCEPT !.decls = Insert(st.decls, decl)]

\* add where an overloadable item takes the entry of an overloadable one
add_overload_replaces(st, decl) ==
  IF decl.designator \in DOMAIN st.decls
  THEN LET old_decl == st.decls[decl.designator] IN
       IF ~decl.may_overload \/ ~old_decl.may_overload
       THEN IF ~decl.is_deferred /\ old_decl.is_deferred
            THEN [st EXCEPT !.decls = Insert(st.decls, decl)]
            ELSE [st EXCEPT !.messages =
                    Append(st.messages, DuplicateDeclaration(decl, old_decl))]
       ELSE [st EXCEPT !.decls = Insert(st.decls, decl)]
  ELSE [st EXCEPT !.decls = Insert(st.decls, decl)]

\* add reporting only the collision of two items neither of which may
\* overload
add_both_not_overload(st, decl) ==
  IF decl.designator \in DOMAIN st.decls
  THEN LET old_decl == st.decls[decl.designator] IN
       IF ~decl.may_overload /\ ~old_decl.may_overload
       THEN IF ~decl.is_deferred /\ old_decl.is_deferred
            THEN [st EXCEPT !.decls = Insert(st.decls, decl)]
            ELSE [st EXCEPT !.messages =
                    Append(st.messages, DuplicateDeclaration(decl, old_decl))]
       ELSE st
  ELSE [st EXCEPT !.decls = Insert(st.decls, decl)]

\* DeclarativeRegion::add on the pair of the region's map and the sink
\* add completing a deferred constant only by an item that may not overload
add_completion_by_kind(st, decl) ==
  IF decl.designator \in DOMAIN st.decls
  THEN LET old_decl == st.decls[decl.designator] IN
       IF ~decl.may_overload \/ ~old_decl.may_overload
       THEN IF ~decl.is_deferred /\ ~decl.may_overload /\ old_decl.is_deferred
            THEN [st EXCEPT !.decls = Insert(st.decls, decl)]
            ELSE [st EXCEPT !.messages =
                    Append(st.messages, DuplicateDeclaration(decl, old_decl))]
       ELSE st
  ELSE [st EXCEPT !.decls = Insert(st.decls, decl)]

add(st, decl) ==
  IF decl.designator \in DOMAIN st.decls
  THEN LET old_decl == st.decls[decl.designator] IN
       IF ~decl.may_overload \/ ~old_decl.may_overload
       THEN IF ~decl.is_deferred /\ old_decl.is_deferred
            THEN [st EXCEPT !.decls = Insert(st.decls, decl)]
            ELSE [st EXCEPT !.messages =
                    Append(st.messages, DuplicateDeclaration(decl, old_decl))]
       ELSE st
  ELSE [st EXCEPT !.decls = Insert(st.decls, decl)]

\* the inner loop of add_interface_list / add_declarative_part: add every
\* item of one declaration
RECURSIVE add_items(_, _)
add_items(st, items) ==
  IF items = << >> THEN st
  ELSE add_items(add(st, Head(items)), Tail(items))

\* ------------------------------------------------------------------ state
VARIABLES
  pc,        \* position of Analyzer::analyze
  region,    \* the region of the entity or package being analysed
  clone,     \* region.clone() handed to the architecture or package body
  added,     \* the items added to region so far, in order
  cadded,    \* the items added to clone (and to the region it is a clone of)
  messages,  \* the caller's sink
  n,         \* declarations of the design root walked so far
  nunits,    \* design units walked so far: the primary unit and its secondary units
  root,      \* the names of the libraries of the design root
  stack,     \* the nested scopes still to check, the next one first
  nested,    \* the nested scopes of the declarations of the part being added
  nstmts,    \* concurrent statements and generate bodies walked so far
  walked     \* what the current walk has read of the design root

\* the variables the walk of the regions of a primary unit leaves alone
others == <<root, stack, nested, nstmts, walked>>

vars == <<pc, region, clone, added, cadded, messages, n, nunits,
          root, stack, nested, nstmts, walked>>

Init ==
  /\ pc = "library"
  /\ region = NewRegion
  /\ clone = NewRegion
  /\ added = << >>
  /\ cadded = << >>
  /\ messages = << >>
  /\ n = 0
  /\ nunits = 0
  /\ root = {}
  /\ stack = << >>
  /\ nested = << >>
  /\ nstmts = 0
  /\ walked = << >>

\* the builder's loop left at the first diagnostic of the sink: a
\* declaration read after it is not added
AddToRegion_stops_after_error(items) ==
  LET st == IF messages = << >>
            THEN add_items([decls |-> region, messages |-> messages], items)
            ELSE [decls |-> region, messages |-> messages] IN
  /\ region' = st.decls
  /\ messages' = st.messages
  /\ added' = added \o items
  /\ n' = n + 1
  /\ UNCHANGED <<clone, cadded>>

\* one iteration of a builder's loop on the analysed unit's own region
AddToRegion(items) ==
  LET st == add_items([decls |-> region, messages |-> messages], items) IN
  /\ region' = st.decls
  /\ messages' = st.messages
  /\ added' = added \o items
  /\ n' = n + 1
  /\ UNCHANGED <<clone, cadded>>

\* one iteration of a builder's loop on the clone
AddToClone(items) ==
  LET st == add_items([decls |-> clone, messages |-> messages], items) IN
  /\ clone' = st.decls
  /\ messages' = st.messages
  /\ cadded' = cadded \o items
  /\ n' = n + 1
  /\ UNCHANGED <<region, added>>

\* ---------------------------------------------------------------- entity
\* analyze: the next entity of the library; check_entity_declaration starts
\* from an empty region
BeginEntity ==
  /\ pc = "library"
  /\ pc' = "generic"
  /\ nunits' = nunits + 1
  /\ region' = NewRegion
  /\ added' = << >>
  /\ UNCHANGED <<clone, cadded, messages, n>>
  /\ UNCHANGED others

\* check_entity_declaration: one declaration of the generic clause
AddGeneric ==
  /\ pc = "generic"
  /\ n < MaxDecls
  /\ \E decl \in InterfaceDeclarations :
       AddToRegion(interface_declarative_items(decl,
                                               Pos("entity", nunits, "generic", n + 1)))
  /\ UNCHANGED <<pc, nunits>>
  /\ UNCHANGED others

\* the port clause checked in a region of its own
EndGeneric_new_region ==
  /\ pc = "generic"
  /\ pc' = "port"
  /\ region' = NewRegion
  /\ UNCHANGED <<clone, added, cadded, messages, n, nunits>>
  /\ UNCHANGED others

\* check_entity_declaration: the generic clause is done (or absent)
EndGeneric ==
  /\ pc = "generic"
  /\ pc' = "port"
  /\ UNCHANGED <<region, clone, added, cadded, messages, n, nunits>>
  /\ UNCHANGED others

\* check_entity_declaration: one declaration of the port clause
AddPort ==
  /\ pc = "port"
  /\ n < MaxDecls
  /\ \E decl \in InterfaceDeclarations :
       AddToRegion(interface_declarative_items(decl,
                                               Pos("entity", nunits, "port", n + 1)))
  /\ UNCHANGED <<pc, nunits>>
  /\ UNCHANGED others

\* check_entity_declaration: the port clause is done (or absent)
EndPort ==
  /\ pc = "port"
  /\ pc' = "decl"
  /\ UNCHANGED <<region, clone, added, cadded, messages, n, nunits>>
  /\ UNCHANGED others

\* check_entity_declaration: one declaration of the declarative part
AddEntityDecl ==
  /\ pc = "decl"
  /\ n < MaxDecls
  /\ \E decl \in Declarations :
       AddToRegion(declarative_items(decl, Pos("entity", nunits, "decl", n + 1)))
  /\ UNCHANGED <<pc, nunits>>
  /\ UNCHANGED others

\* check_entity_declaration returns the region to analyze
EndEntityDeclaration ==
  /\ pc = "decl"
  /\ pc' = "architectures"
  /\ UNCHANGED <<region, clone, added, cadded, messages, n, nunits>>
  /\ UNCHANGED others

\* the architecture checked against an empty region
BeginArchitecture_empty_region ==
  /\ pc = "architectures"
  /\ nunits - 1 < MaxArchs
  /\ pc' = "arch_decl"
  /\ nunits' = nunits + 1
  /\ clone' = NewRegion
  /\ cadded' = added
  /\ UNCHANGED <<region, added, messages, n>>
  /\ UNCHANGED others

\* analyze: the next architecture is checked against region.clone()
BeginArchitecture ==
  /\ pc = "architectures"
  /\ nunits - 1 < MaxArchs          \* nunits - 1 architectures so far
  /\ pc' = "arch_decl"
  /\ nunits' = nunits + 1
  /\ clone' = region
  /\ cadded' = added
  /\ UNCHANGED <<region, added, messages, n>>
  /\ UNCHANGED others

\* check_architecture_body: one declaration of the declarative part
AddArchitectureDecl ==
  /\ pc = "arch_decl"
  /\ n < MaxDecls
  /\ \E decl \in Declarations :
       AddToClone(declarative_items(decl,
                                    Pos("architecture", nunits, "decl", n + 1)))
  /\ UNCHANGED <<pc, nunits>>
  /\ UNCHANGED others

\* the architecture checked on the entity's region itself: what it added
\* stays
EndArchitecture_no_clone ==
  /\ pc = "arch_decl"
  /\ pc' = "architectures"
  /\ region' = clone
  /\ added' = cadded
  /\ clone' = NewRegion
  /\ cadded' = << >>
  /\ UNCHANGED <<messages, n, nunits>>
  /\ UNCHANGED others

\* check_architecture_body returns; the clone is dropped
EndArchitecture ==
  /\ pc = "arch_decl"
  /\ pc' = "architectures"
  /\ clone' = NewRegion
  /\ cadded' = << >>
  /\ UNCHANGED <<region, added, messages, n, nunits>>
  /\ UNCHANGED others

\* analyze: the entity has no further architecture; its region is dropped
EndEntity ==
  /\ pc = "architectures"
  /\ pc' = "done"
  /\ region' = NewRegion
  /\ added' = << >>
  /\ UNCHANGED <<clone, cadded, messages, n, nunits>>
  /\ UNCHANGED others

\* --------------------------------------------------------------- package
\* analyze: the next package; check_package_declaration starts from an
\* empty region
BeginPackage ==
  /\ pc = "library"
  /\ pc' = "pkg_generic"
  /\ nunits' = nunits + 1
  /\ region' = NewRegion
  /\ added' = << >>
  /\ UNCHANGED <<clone, cadded, messages, n>>
  /\ UNCHANGED others

\* check_package_declaration: one declaration of the generic clause
AddPackageGeneric ==
  /\ pc = "pkg_generic"
  /\ n < MaxDecls
  /\ \E decl \in InterfaceDeclarations :
       AddToRegion(interface_declarative_items(decl,
                                               Pos("package", nunits, "generic", n + 1)))
  /\ UNCHANGED <<pc, nunits>>
  /\ UNCHANGED others

\* check_package_declaration: the generic clause is done (or absent)
EndPackageGeneric ==
  /\ pc = "pkg_generic"
  /\ pc' = "pkg_decl"
  /\ UNCHANGED <<region, clone, added, cadded, messages, n, nunits>>
  /\ UNCHANGED others

\* check_package_declaration: one declaration of the declarative part
AddPackageDecl ==
  /\ pc = "pkg_decl"
  /\ n < MaxDecls
  /\ \E decl \in Declarations :
       AddToRegion(declarative_items(decl, Pos("package", nunits, "decl", n + 1)))
  /\ UNCHANGED <<pc, nunits>>
  /\ UNCHANGED others

\* check_package_declaration returns the region to analyze
EndPackageDeclaration ==
  /\ pc = "pkg_decl"
  /\ pc' = "pkg_body"
  /\ UNCHANGED <<region, clone, added, cadded, messages, n, nunits>>
  /\ UNCHANGED others

\* the package body checked against an empty region
BeginPackageBody_empty_region ==
  /\ pc = "pkg_body"
  /\ pc' = "body_decl"
  /\ nunits' = nunits + 1
  /\ clone' = NewRegion
  /\ cadded' = added
  /\ UNCHANGED <<region, added, messages, n>>
  /\ UNCHANGED others

\* analyze: the package has a body, checked against region.clone()
BeginPackageBody ==
  /\ pc = "pkg_body"
  /\ pc' = "body_decl"
  /\ nunits' = nunits + 1
  /\ clone' = region
  /\ cadded' = added
  /\ UNCHANGED <<region, added, messages, n>>
  /\ UNCHANGED others

\* the package body checked on the package's region itself
AddPackageBodyDecl_shared_region ==
  /\ pc = "body_decl"
  /\ n < MaxDecls
  /\ \E decl \in Declarations :
       LET items == declarative_items(decl, Pos("body", nunits, "decl", n + 1))
           st == add_items([decls |-> clone, messages |-> messages], items) IN
       /\ clone' = st.decls
       /\ region' = st.decls
       /\ messages' = st.messages
       /\ cadded' = cadded \o items
       /\ n' = n + 1
  /\ UNCHANGED <<pc, nunits, added>>
  /\ UNCHANGED others

\* check_package_body: one declaration of the declarative part
AddPackageBodyDecl ==
  /\ pc = "body_decl"
  /\ n < MaxDecls
  /\ \E decl \in Declarations :
       AddToClone(declarative_items(decl, Pos("body", nunits, "decl", n + 1)))
  /\ UNCHANGED <<pc, nunits>>
  /\ UNCHANGED others

\* check_package_body returns; the clone and the package's region are
\* dropped
EndPackageBody ==
  /\ pc = "body_decl"
  /\ pc' = "done"
  /\ clone' = NewRegion
  /\ cadded' = << >>
  /\ region' = NewRegion
  /\ added' = << >>
  /\ UNCHANGED <<messages, n, nunits>>
  /\ UNCHANGED others

\* analyze: the package has no body; its region is dropped
NoPackageBody ==
  /\ pc = "pkg_body"
  /\ pc' = "done"
  /\ region' = NewRegion
  /\ added' = << >>
  /\ UNCHANGED <<clone, cadded, messages, n, nunits>>
  /\ UNCHANGED others

Next ==
  \/ BeginEntity
  \/ AddGeneric
  \/ EndGeneric
  \/ AddPort
  \/ EndPort
  \/ AddEntityDecl
  \/ EndEntityDeclaration
  \/ BeginArchitecture
  \/ AddArchitectureDecl
  \/ EndArchitecture
  \/ EndEntity
  \/ BeginPackage
  \/ AddPackageGeneric
  \/ EndPackageGeneric
  \/ AddPackageDecl
  \/ EndPackageDeclaration
  \/ BeginPackageBody
  \/ AddPackageBodyDecl
  \/ EndPackageBody
  \/ NoPackageBody

Spec == Init /\ [][Next]_vars

\* ======================================================= context clauses
\* library names and other context items of the walk, all context clauses
\* together
MaxLibraryNames == 3

\* the library names a clause can mention: the two predefined symbols of
\* Analyzer::new and an ordinary library name
LibraryNames == {"std", "work", "lib"}

\* the name lists of at most len names
NameLists(len) ==
  UNION { [1..k -> LibraryNames] : k \in 1..len }

\* ast::ContextItem: a library clause of at most len names, or one of the
\* items the checker skips (use clause, context reference)
ContextItems(len) ==
       { [kind |-> "Library", name_list |-> l] : l \in NameLists(len) }
  \cup { [kind |-> "Use"], [kind |-> "Context"] }

\* the design roots: the libraries they hold, by name
DesignRoots == SUBSET LibraryNames \ {{}}

\* DesignRoot::has_library
has_library(r, name) == name \in r

\* Message::hint at a library name
LibraryHint(name) ==
  [severity |-> "Hint", pos |-> name.pos, library |-> name.item,
   message |-> "Library clause not necessary for current working library"]

\* Message::error at a library name
NoSuchLibrary(name) ==
  [severity |-> "Error", pos |-> name.pos, library |-> name.item,
   message |-> "No such library"]

\* the existence query asked for std as for any other name
check_library_name_std_looked_up(r, name, msgs) ==
  IF "work" = name.item THEN Append(msgs, LibraryHint(name))
  ELSE IF ~has_library(r, name.item) THEN Append(msgs, NoSuchLibrary(name))
  ELSE msgs

\* the existence query asked before the name is compared with work
check_library_name_work_looked_up(r, name, msgs) ==
  IF "std" = name.item THEN msgs
  ELSE IF ~has_library(r, name.item) THEN Append(msgs, NoSuchLibrary(name))
  ELSE IF "work" = name.item THEN Append(msgs, LibraryHint(name))
  ELSE msgs

\* check_context_clause: the body of the loop over name_list
check_library_name(r, name, msgs) ==
  IF "std" = name.item THEN msgs
  ELSE IF "work" = name.item THEN Append(msgs, LibraryHint(name))
  ELSE IF ~has_library(r, name.item) THEN Append(msgs, NoSuchLibrary(name))
  ELSE msgs

\* the names of a library clause with their positions; at is the position
\* of the clause
LibraryNamesOf(item, at) ==
  [i \in 1..Len(item.name_list) |->
     [item |-> item.name_list[i], pos |-> [at EXCEPT !.sub = i]]]

\* check_context_clause: the loop over name_list
RECURSIVE check_name_list(_, _, _)
check_name_list(r, names, msgs) ==
  IF names = << >> THEN msgs
  ELSE check_name_list(r, Tail(names), check_library_name(r, Head(names), msgs))

\* the variables the walk of the context clauses leaves alone
regions == <<region, clone, added, cadded, stack, nested, nstmts>>

InitContext ==
  /\ pc = "library"
  /\ region = NewRegion
  /\ clone = NewRegion
  /\ added = << >>
  /\ cadded = << >>
  /\ messages = << >>
  /\ n = 0
  /\ nunits = 0
  /\ root \in DesignRoots
  /\ stack = << >>
  /\ nested = << >>
  /\ nstmts = 0
  /\ walked = << >>

\* the design unit whose context clause is being checked
ContextUnit ==
  CASE pc = "entity_context" -> "entity"
    [] pc = "architecture_context" -> "architecture"
    [] pc = "package_context" -> "package"
    [] pc = "body_context" -> "body"

\* check_context_clause: one context item of the clause
CheckContextItem ==
  /\ pc \in {"entity_context", "architecture_context", "package_context",
             "body_context"}
  /\ n < MaxLibraryNames
  /\ \E item \in ContextItems(MaxLibraryNames - n) :
       LET names == IF item.kind = "Library"
                    THEN LibraryNamesOf(item, Pos(ContextUnit, nunits,
                                                  "context", n + 1))
                    ELSE << >> IN
       /\ messages' = check_name_list(root, names, messages)
       /\ walked' = walked \o names
       /\ n' = n + (IF item.kind = "Library" THEN Len(names) ELSE 1)
  /\ UNCHANGED <<pc, nunits, root, regions>>

\* analyze: the context clause of the next entity of the library
EntityContext ==
  /\ pc = "library"
  /\ pc' = "entity_context"
  /\ nunits' = nunits + 1
  /\ UNCHANGED <<messages, n, root, walked, regions>>

\* analyze: the entity, without clauses and declarations, is checked and
\* the context clause of its next architecture is reached
ArchitectureContext ==
  /\ pc \in {"entity_context", "architecture_context"}
  /\ nunits - 1 < MaxArchs
  /\ pc' = "architecture_context"
  /\ nunits' = nunits + 1
  /\ UNCHANGED <<messages, n, root, walked, regions>>

\* analyze: the context clause of the next package of the library
PackageContext ==
  /\ pc = "library"
  /\ pc' = "package_context"
  /\ nunits' = nunits + 1
  /\ UNCHANGED <<messages, n, root, walked, regions>>

\* analyze: the package, without declarations, is checked and the context
\* clause of its body is reached
BodyContext ==
  /\ pc = "package_context"
  /\ pc' = "body_context"
  /\ nunits' = nunits + 1
  /\ UNCHANGED <<messages, n, root, walked, regions>>

\* analyze: the primary unit has no further secondary unit
EndContext ==
  /\ pc \in {"entity_context", "architecture_context", "package_context",
             "body_context"}
  /\ pc' = "done"
  /\ UNCHANGED <<messages, n, nunits, root, walked, regions>>

NextContext ==
  \/ EntityContext
  \/ ArchitectureContext
  \/ PackageContext
  \/ BodyContext
  \/ CheckContextItem
  \/ EndContext

SpecContext == InitContext /\ [][NextContext]_vars

\* ========================================================= nested scopes
\* The walkers of the nested scopes of one design unit.  The unit starts
\* from an empty region: an entity or a package without generic and port
\* clause, an architecture or a package body of an empty primary unit.
\* The scopes a walker has still to check are kept on a stack; the scope on
\* top is the one being checked.

\* declarations, concurrent statements and further generate bodies of the
\* unit, all lists together
MaxNodes == 3

UnitKinds == {"entity", "architecture", "package", "body"}

\* ast::ConcurrentStatement, as far as check_concurrent_statement looks at it
StatementKinds ==
  {"Block", "Process", "ForGenerate", "IfGenerate", "CaseGenerate", "Other"}

\* a scope to check: the kind of list, the declaration, statement or unit it
\* belongs to (its kind and number), the part of it, and the declarative
\* scope around it
Task(scope, of, no, part, up) ==
  [scope |-> scope, of |-> of, no |-> no, part |-> part, up |-> up]

\* the declaration, statement or unit a scope belongs to
ScopeId(t) == [unit |-> t.of, no |-> t.no]

\* a unit is enclosed by its library only
Library == [unit |-> "library", no |-> 0]

\* the position of the idx-th declaration of the design unit, inside scope t
ScopePos(t, idx) ==
  [unit |-> t.of, no |-> t.no, part |-> t.part, idx |-> idx, sub |-> 0,
   up |-> t.up]

\* check_declarative_part_unique_ident_inner: the scopes checked for one
\* declaration, the k-th of the unit, declared in scope up
NestedScopes(decl, k, up) ==
  CASE decl.kind = "Component" ->
         << Task("interface", "Component", k, "generic_list", up),
            Task("interface", "Component", k, "port_list", up) >>
    [] decl.kind = "SubprogramBody" ->
         << Task("interface", "SubprogramBody", k, "parameter_list", up),
            Task("part", "SubprogramBody", k, "declarations", up) >>
    [] decl.kind = "SubprogramDeclaration" ->
         << Task("interface", "SubprogramDeclaration", k, "parameter_list", up) >>
    [] decl.kind = "Type" /\ decl.def = "ProtectedBody" ->
         << Task("part", "ProtectedBody", k, "decl", up) >>
    [] decl.kind = "Type" /\ decl.def = "Protected" ->
         << Task("subprograms", "Protected", k, "items", up) >>
    [] decl.kind = "Type" /\ decl.def = "Record" ->
         << Task("elements", "Record", k, "elements", up) >>
    [] OTHER -> << >>

\* check_concurrent_statement: the scopes checked for one statement, the
\* j-th of the unit, in the statement list of scope up; an if generate has
\* a first conditional and a case generate a first alternative, their
\* further bodies follow one by one
StatementScopes(kind, j, up) ==
  CASE kind = "Block" ->
         << Task("part", "Block", j, "decl", up),
            Task("statements", "Block", j, "statements", up) >>
    [] kind = "Process" ->
         << Task("part", "Process", j, "decl", up) >>
    [] kind = "ForGenerate" ->
         << Task("body", "ForGenerate", j, "body", up) >>
    [] kind = "IfGenerate" ->
         << Task("body", "IfGenerate", j, "body",
                 [unit |-> "IfGenerate", no |-> j]),
            Task("bodies", "IfGenerate", j, "conditionals", up) >>
    [] kind = "CaseGenerate" ->
         << Task("body", "CaseGenerate", j, "body",
                 [unit |-> "CaseGenerate", no |-> j]),
            Task("bodies", "CaseGenerate", j, "alternatives", up) >>
    [] OTHER -> << >>

\* the declarations drawn for the declarative part of scope t: in the part
\* of a unit, a subprogram body or a protected type body the declarations
\* that have nested scopes and constants with a value; in the part of a
\* concurrent statement constants with a value
ScopeDeclarations(t) ==
  IF t.of \in StatementKinds
  THEN { d \in Declarations :
           d.kind = "Object" /\ d.class = "Constant" /\ d.expression }
  ELSE { d \in Declarations :
           \/ NestedScopes(d, 0, Library) # << >>
           \/ d.kind = "Object" /\ d.class = "Constant" /\ d.expression }

InitScopes ==
  /\ pc = "scopes"
  /\ region = NewRegion
  /\ clone = NewRegion
  /\ added = << >>
  /\ cadded = << >>
  /\ messages = << >>
  /\ n = 0
  /\ nunits = 0
  /\ nstmts = 0
  /\ root = {}
  /\ \E unit \in UnitKinds :
       stack = << Task("part", unit, 0, "decl", Library) >>
  /\ nested = << >>
  /\ walked = << >>

\* the kind of the scope being checked
Scope == IF stack = << >> THEN "none" ELSE Head(stack).scope

\* one iteration of a builder's loop on the region of the scope on top
AddToScope(items) ==
  /\ AddToRegion(items)
  /\ walked' = walked \o items
  /\ UNCHANGED <<pc, nunits, nstmts, root, stack>>

\* the scope on top is done and its region dropped; next replaces it on the
\* stack
EndScope(next) ==
  /\ stack' = next \o Tail(stack)
  /\ region' = NewRegion
  /\ added' = << >>
  /\ nested' = << >>
  /\ UNCHANGED <<pc, clone, cadded, messages, n, nunits, nstmts, root, walked>>

\* add_declarative_part: one declaration of a declarative part
ScopeAddDecl ==
  /\ Scope = "part"
  /\ n + nstmts < MaxNodes
  /\ \E decl \in ScopeDeclarations(Head(stack)) :
       /\ AddToScope(declarative_items(decl, ScopePos(Head(stack), n + 1)))
       /\ nested' = nested \o NestedScopes(decl, n + 1, ScopeId(Head(stack)))

\* check_entity_declaration: the declarative part is added; the concurrent
\* statements of the entity follow
EndEntityPart ==
  /\ Scope = "part"
  /\ Head(stack).of = "entity"
  /\ EndScope(<< Task("statements", "entity", 0, "statements", Library) >>)

\* the scopes nested in the architecture checked in the region of the
\* architecture instead of a region of their own
EndArchitecturePart_region_kept ==
  /\ Scope = "part"
  /\ Head(stack).of = "architecture"
  /\ stack' = nested \o
              << Task("statements", "architecture", 0, "statements", Library) >>
  /\ added' = << >>
  /\ nested' = << >>
  /\ UNCHANGED <<pc, region, clone, cadded, messages, n, nunits, nstmts,
                 root, walked>>

\* check_architecture_body: the declarative part is added; its nested
\* scopes and then the concurrent statements of the architecture follow
EndArchitecturePart ==
  /\ Scope = "part"
  /\ Head(stack).of = "architecture"
  /\ EndScope(nested \o
              << Task("statements", "architecture", 0, "statements", Library) >>)

\* check_package_declaration, check_package_body: the declarative part is
\* added; its nested scopes follow
EndPackagePart ==
  /\ Scope = "part"
  /\ Head(stack).of \in {"package", "body"}
  /\ EndScope(nested)

\* check_declarative_part_unique_ident: the declarative part is added; its
\* nested scopes follow
EndDeclarativePart ==
  /\ Scope = "part"
  /\ Head(stack).of \notin UnitKinds
  /\ EndScope(nested)

\* add_interface_list: one declaration of an interface list
ScopeAddInterface ==
  /\ Scope = "interface"
  /\ n + nstmts < MaxNodes
  /\ \E decl \in InterfaceDeclarations :
       AddToScope(interface_declarative_items(decl,
                                              ScopePos(Head(stack), n + 1)))
  /\ UNCHANGED nested

\* the region of the interface list kept for the scope checked next
EndInterfaceList_same_region ==
  /\ Scope = "interface"
  /\ stack' = Tail(stack)
  /\ added' = << >>
  /\ UNCHANGED <<pc, region, clone, cadded, messages, n, nunits, nstmts,
                 root, nested, walked>>

\* check_interface_list_unique_ident returns
EndInterfaceList ==
  /\ Scope = "interface"
  /\ EndScope(<< >>)

\* add_element_declarations: one element of a record type
AddElement ==
  /\ Scope = "elements"
  /\ n + nstmts < MaxNodes
  /\ \E ident \in Names :
       AddToScope(<< DeclarativeItem(ident, ScopePos(Head(stack), n + 1)) >>)
  /\ UNCHANGED nested

\* check_element_declaration_unique_ident returns
EndElements ==
  /\ Scope = "elements"
  /\ EndScope(<< >>)

\* check_declarative_part_unique_ident_inner: the next subprogram of a
\* protected type declaration; its parameter list is checked
ProtectedSubprogram ==
  /\ Scope = "subprograms"
  /\ n + nstmts < MaxNodes
  /\ n' = n + 1
  /\ stack' = << Task("interface", "ProtectedSubprogram", n + 1,
                      "parameter_list", ScopeId(Head(stack))) >> \o stack
  /\ UNCHANGED <<pc, region, clone, added, cadded, messages, nunits, nstmts,
                 root, nested, walked>>

\* check_declarative_part_unique_ident_inner: the protected type has no
\* further item
EndProtected ==
  /\ Scope = "subprograms"
  /\ EndScope(<< >>)

\* check_concurrent_part: the next statement of the list
ConcurrentStatement ==
  /\ Scope = "statements"
  /\ n + nstmts < MaxNodes
  /\ nstmts' = nstmts + 1
  /\ \E kind \in StatementKinds :
       stack' = StatementScopes(kind, nstmts + 1, ScopeId(Head(stack)))
                \o stack
  /\ UNCHANGED <<pc, region, clone, added, cadded, messages, n, nunits,
                 root, nested, walked>>

\* check_concurrent_part returns
EndStatements ==
  /\ Scope = "statements"
  /\ EndScope(<< >>)

\* check_concurrent_statement: the next conditional or the else branch of
\* an if generate, the next alternative of a case generate
NextGenerateBody ==
  /\ Scope = "bodies"
  /\ n + nstmts < MaxNodes
  /\ nstmts' = nstmts + 1
  /\ stack' = << Task("body", Head(stack).of, nstmts + 1, "body",
                      ScopeId(Head(stack))) >> \o stack
  /\ UNCHANGED <<pc, region, clone, added, cadded, messages, n, nunits,
                 root, nested, walked>>

\* check_concurrent_statement: the generate statement has no further body
EndGenerate ==
  /\ Scope = "bodies"
  /\ EndScope(<< >>)

\* check_generate_body: the declarative part, when the body has one, and
\* the statements of the body
GenerateBody ==
  /\ Scope = "body"
  /\ \E has_decl \in BOOLEAN :
       LET t == Head(stack) IN
       EndScope((IF has_decl
                 THEN << Task("part", t.of, t.no, "decl", t.up) >>
                 ELSE << >>)
                \o << Task("statements", t.of, t.no, "statements", t.up) >>)

NextScopes ==
  \/ ScopeAddDecl
  \/ EndEntityPart
  \/ EndArchitecturePart
  \/ EndPackagePart
  \/ EndDeclarativePart
  \/ ScopeAddInterface
  \/ EndInterfaceList
  \/ AddElement
  \/ EndElements
  \/ ProtectedSubprogram
  \/ EndProtected
  \/ ConcurrentStatement
  \/ EndStatements
  \/ NextGenerateBody
  \/ EndGenerate
  \/ GenerateBody

SpecScopes == InitScopes /\ [][NextScopes]_vars

\* ================================================ one list, declaration by
\* declaration
\* check_declarative_part_unique_ident on a declarative part, without the
\* nested scopes, and check_interface_list_unique_ident on an interface
\* list; the declarations read are kept with the items they contributed.

\* declarations of the list
MaxList == 2

InitList ==
  /\ pc \in {"declarative_part", "interface_list"}
  /\ region = NewRegion
  /\ clone = NewRegion
  /\ added = << >>
  /\ cadded = << >>
  /\ messages = << >>
  /\ n = 0
  /\ nunits = 0
  /\ nstmts = 0
  /\ root = {}
  /\ stack = << >>
  /\ nested = << >>
  /\ walked = << >>

\* one iteration of the builder's loop, for declaration decl contributing
\* items
AddToList(decl, items) ==
  /\ AddToRegion(items)
  /\ walked' = Append(walked, [decl |-> decl, items |-> items])
  /\ UNCHANGED <<pc, nunits, nstmts, root, stack, nested>>

\* add_declarative_part: one declaration of the declarative part
ListAddDecl ==
  /\ pc = "declarative_part"
  /\ n < MaxList
  /\ \E decl \in Declarations :
       AddToList(decl, declarative_items(decl, Pos("part", 0, "decl", n + 1)))

\* add_interface_list: one declaration of the interface list
ListAddInterface ==
  /\ pc = "interface_list"
  /\ n < MaxList
  /\ \E decl \in InterfaceDeclarations :
       AddToList(decl,
                 interface_declarative_items(decl,
                                             Pos("list", 0, "interface", n + 1)))

NextList ==
  \/ ListAddDecl
  \/ ListAddInterface

SpecList == InitList /\ [][NextList]_vars

\* ------------------------------------------------------------ vocabulary
\* the walk is inside check_architecture_body or check_package_body
InClone == pc \in {"arch_decl", "body_decl"}

\* the region the builders are adding to, and the items added to it
CurRegion == IF InClone THEN clone ELSE region
CurAdded == IF InClone THEN cadded ELSE added

\* a region together with the items that were added to it
Regions == {<<region, added>>, <<clone, cadded>>}

\* the items of one designator, in the order they were added
Of(h, x) == SelectSeq(h, LAMBDA it : it.designator = x)

\* the diagnostics whose primary location is p
MsgsAt(p) == SelectSeq(messages, LAMBDA m : m.pos = p)

\* exactly one diagnostic at item it: a duplicate related to item old
OneDuplicate(it, old) == MsgsAt(it.pos) = << DuplicateDeclaration(it, old) >>

\* no diagnostic at item it
NoMessage(it) == MsgsAt(it.pos) = << >>

\* a complete declaration that may not overload (a constant with a value)
Plain(it) == ~it.is_deferred /\ ~it.may_overload

\* the step is one iteration of a builder's loop
IsAdd == n' = n + 1

\* the items the step added and the diagnostics it emitted
StepItems == SubSeq(CurAdded', Len(CurAdded) + 1, Len(CurAdded'))
StepMessages == SubSeq(messages', Len(messages) + 1, Len(messages'))

Range(s) == {s[i] : i \in 1..Len(s)}

\* ----------------------------------------------------------------- C1
\* C1: in one region a non-deferred declaration that follows a deferred
\* constant of the same name emits no diagnostic and becomes the entry of
\* the name; of the sequence deferred, complete, complete (and further
\* complete ones) the 1st and 2nd occurrence have no diagnostic and every
\* later one has exactly one duplicate error, related to the 2nd occurrence.
C1_DeferredThenComplete ==
  \A rh \in Regions : \A x \in Names :
    LET r == rh[1]
        s == Of(rh[2], x) IN
    (Len(s) >= 2 /\ s[1].is_deferred /\ ~s[2].is_deferred) =>
       /\ NoMessage(s[1])
       /\ NoMessage(s[2])
       /\ r[x] = s[2]
       /\ (\A i \in 2..Len(s) : Plain(s[i])) =>
            \A i \in 3..Len(s) : OneDuplicate(s[i], s[2])

\* deferred, complete, complete of one name were added to the entity's or
\* package's region: one diagnostic
C1_Witness ==
  \E x \in Names :
    LET s == Of(added, x) IN
    /\ Len(s) = 3
    /\ s[1].is_deferred /\ Plain(s[2]) /\ Plain(s[3])
    /\ Len(messages) = 1

\* ----------------------------------------------------------------- C2
\* C2: a step that adds a deferred constant whose name has an entry that
\* may not overload (complete or itself deferred) appends exactly one
\* duplicate error, at the deferred constant and related to the entry, and
\* leaves the region as it was.
C2_NoBackwardCompletion ==
  [][ (IsAdd /\ Len(StepItems) = 1) =>
        LET it == StepItems[1] IN
        (/\ it.is_deferred
         /\ it.designator \in DOMAIN CurRegion
         /\ ~CurRegion[it.designator].may_overload) =>
           /\ messages' =
                Append(messages,
                       DuplicateDeclaration(it, CurRegion[it.designator]))
           /\ CurRegion' = CurRegion ]_vars

\* a complete declaration, then a deferred constant of its name: reported
\* at the deferred constant, and the complete declaration is the entry
C2_Witness ==
  \E x \in Names :
    LET s == Of(CurAdded, x) IN
    /\ Len(s) = 2 /\ Plain(s[1]) /\ s[2].is_deferred
    /\ OneDuplicate(s[2], s[1])
    /\ CurRegion[x] = s[1]

\* ----------------------------------------------------------------- C3
\* C3: an add that emits a duplicate error leaves the map as it was, and
\* when all k >= 2 declarations of a name in a region (the clone of an
\* entity's or package's region included) are complete and may not
\* overload, each of the occurrences 2..k has exactly one error, related to
\* occurrence 1, and occurrence 1 is the entry.
C3_ErrorKeepsMap ==
  /\ (IsAdd /\ Len(StepItems) = 1 /\ messages' # messages) =>
        CurRegion' = CurRegion
  /\ IsAdd =>
       \A i \in 1..Len(StepItems) :
         LET it == StepItems[i] IN
         (/\ \E j \in 1..Len(StepMessages) : StepMessages[j].pos = it.pos
          /\ \A k \in 1..Len(StepItems) :
               k # i => StepItems[k].designator # it.designator) =>
            /\ it.designator \in DOMAIN CurRegion
            /\ CurRegion'[it.designator] = CurRegion[it.designator]

C3_FirstWriter ==
  \A rh \in Regions : \A x \in Names :
    LET r == rh[1]
        s == Of(rh[2], x) IN
    (Len(s) >= 2 /\ \A i \in 1..Len(s) : Plain(s[i])) =>
       /\ r[x] = s[1]
       /\ NoMessage(s[1])
       /\ \A i \in 2..Len(s) : OneDuplicate(s[i], s[1])

C3_FirstWriterWins == [][C3_ErrorKeepsMap]_vars /\ []C3_FirstWriter

\* three complete declarations of one name, the first in the entity or
\* package and the last in the architecture or body: two errors
C3_Witness ==
  \E x \in Names :
    LET s == Of(cadded, x) IN
    /\ InClone
    /\ Len(s) = 3
    /\ \A i \in 1..3 : Plain(s[i])
    /\ s[1].pos.unit # s[3].pos.unit
    /\ Len(messages) = 2

\* ----------------------------------------------------------------- C4
\* C4: an overloadable item added to a region whose entry of the same
\* designator is overloadable gets no diagnostic; so when all items of a
\* name are overloadable, none of them has a diagnostic.
C4_StepSilent ==
  IsAdd =>
    \A i \in 1..Len(StepItems) :
      LET it == StepItems[i] IN
      (/\ it.may_overload
       /\ it.designator \in DOMAIN CurRegion
       /\ CurRegion[it.designator].may_overload) =>
         \A j \in 1..Len(StepMessages) : StepMessages[j].pos # it.pos

C4_AllOverloadable ==
  \A rh \in Regions : \A x \in Names :
    LET s == Of(rh[2], x) IN
    (\A i \in 1..Len(s) : s[i].may_overload) =>
       \A i \in 1..Len(s) : NoMessage(s[i])

C4_OverloadsNeverCollide == [][C4_StepSilent]_vars /\ []C4_AllOverloadable

\* three overloadable items of one name, an enumeration literal and a
\* subprogram or alias among them, and no diagnostic at all
C4_Witness ==
  \E x \in Names :
    LET s == Of(CurAdded, x) IN
    /\ Len(s) = 3
    /\ \A i \in 1..3 : s[i].may_overload
    /\ \E i \in 1..3 : s[i].pos.sub > 0
    /\ \E i \in 1..3 : s[i].pos.sub = 0
    /\ messages = << >>

C6_StepMismatch ==
  IsAdd =>
    \A i \in 1..Len(StepItems) :
      LET it == StepItems[i] IN
      (/\ it.designator \in DOMAIN CurRegion
       /\ it.may_overload # CurRegion[it.designator].may_overload
       /\ ~CurRegion[it.designator].is_deferred) =>
         SelectSeq(StepMessages, LAMBDA m : m.pos = it.pos)
           = << DuplicateDeclaration(it, CurRegion[it.designator]) >>

C6_OverloadMismatch == [][C6_StepMismatch]_vars

\* both orders have been reported: an overloadable item then one that may
\* not overload, and the reverse
C6_Witness ==
  \E x \in Names : \E y \in Names :
    LET s == Of(CurAdded, x)
        t == Of(CurAdded, y) IN
    /\ x # y
    /\ Len(s) = 2 /\ s[1].may_overload /\ Plain(s[2])
    /\ OneDuplicate(s[2], s[1])
    /\ Len(t) = 2 /\ Plain(t[1]) /\ t[2].may_overload
    /\ OneDuplicate(t[2], t[1])

\* ----------------------------------------------------------------- C7
\* the items the architecture or package body added to the clone
SecondaryItems == SubSeq(cadded, Len(added) + 1, Len(cadded))

\* the first item of s that is not deferred, or the first item if all are
FirstComplete(s) ==
  IF \E i \in 1..Len(s) : ~s[i].is_deferred
  THEN s[CHOOSE i \in 1..Len(s) :
           /\ ~s[i].is_deferred
           /\ \A j \in 1..(i - 1) : s[j].is_deferred]
  ELSE s[1]

\* C7 as stated, for the declarative part and the returned region: in the
\* entity's region a declaration of the declarative part named like a
\* generic or port has exactly one error related to that generic or port,
\* and the entry of every name is its first occurrence.
C7_EntityFirstOccurrence ==
  \A x \in Names :
    LET s == Of(added, x) IN
    (Len(s) >= 1 /\ s[1].pos.unit = "entity") =>
       /\ x \in DOMAIN region
       /\ region[x] = s[1]
       /\ \A j \in 2..Len(s) :
            (s[1].pos.part \in {"generic", "port"}
               /\ s[j].pos.part = "decl") =>
               OneDuplicate(s[j], s[1])

\* C7 amended: a port named like a generic, and a declaration of the
\* declarative part named like a generic or port, has exactly one error
\* related to the first generic or port of that name unless both may
\* overload, and then it has no diagnostic; the entry of every name is its
\* first occurrence, or its first non-deferred occurrence when the first
\* occurrence is a deferred constant.
C7_EntityRegion ==
  \A x \in Names :
    LET s == Of(added, x) IN
    (Len(s) >= 1 /\ s[1].pos.unit = "entity") =>
       /\ x \in DOMAIN region
       /\ region[x] = FirstComplete(s)
       /\ \A j \in 2..Len(s) :
            (\/ s[1].pos.part = "generic" /\ s[j].pos.part = "port"
             \/ s[1].pos.part \in {"generic", "port"}
                  /\ s[j].pos.part = "decl") =>
               IF s[1].may_overload /\ s[j].may_overload
               THEN NoMessage(s[j])
               ELSE OneDuplicate(s[j], s[1])

\* a generic, a port and a declaration of one name: the entity's region is
\* returned with the generic as the entry and two errors related to it
C7_Witness ==
  \E x \in Names :
    LET s == Of(added, x) IN
    /\ pc = "architectures"
    /\ Len(s) = 3
    /\ s[1].pos.part = "generic"
    /\ s[2].pos.part = "port"
    /\ s[3].pos.part = "decl"
    /\ region[x] = s[1]
    /\ messages = << DuplicateDeclaration(s[2], s[1]),
                     DuplicateDeclaration(s[3], s[1]) >>

\* ----------------------------------------------------------------- C8
\* C8 as stated: every declaration of an architecture that may not
\* overload and whose name is in the entity's region has exactly one error,
\* at the architecture's occurrence and related to a location of the entity.
C8_ArchitectureAlwaysReported ==
  pc = "arch_decl" =>
    \A i \in 1..Len(SecondaryItems) :
      LET it == SecondaryItems[i] IN
      (~it.may_overload /\ it.designator \in DOMAIN region) =>
         /\ Len(MsgsAt(it.pos)) = 1
         /\ MsgsAt(it.pos)[1].related.unit = "entity"

\* C8 amended: every declaration of an architecture that may not overload
\* and whose name has an entry in the entity's region that is not a deferred
\* constant has exactly one error, at the architecture's occurrence and
\* related to that entry, a location of the entity; so has every sibling
\* architecture.
C8_ArchitectureReported ==
  pc = "arch_decl" =>
    \A i \in 1..Len(SecondaryItems) :
      LET it == SecondaryItems[i] IN
      (/\ ~it.may_overload
       /\ it.designator \in DOMAIN region
       /\ ~region[it.designator].is_deferred) =>
         /\ it.pos.unit = "architecture"
         /\ OneDuplicate(it, region[it.designator])
         /\ region[it.designator].pos.unit = "entity"

\* two architectures have each been reported for the same name of the
\* entity
C8_Witness ==
  /\ pc = "arch_decl"
  /\ Len(messages) = 2
  /\ messages[1].pos.unit = "architecture"
  /\ messages[2].pos.unit = "architecture"
  /\ messages[1].pos.no # messages[2].pos.no
  /\ messages[1].related = messages[2].related
  /\ messages[1].related.unit = "entity"

\* ----------------------------------------------------------------- C9
\* C9: while architectures or a package body are checked the entity's or
\* package's region does not change, every architecture or body starts from
\* a clone equal to it, no diagnostic of an architecture is related to
\* another architecture, and a name that is not in the entity and occurs
\* once in the architecture has no diagnostic whatever its siblings declared.
C9_ParentUnchanged ==
  /\ (pc \in {"architectures", "arch_decl", "pkg_body", "body_decl"}
        /\ pc' # "done") => (region' = region /\ added' = added)
  /\ (pc \in {"architectures", "pkg_body"}
        /\ pc' \in {"arch_decl", "body_decl"}) => clone' = region

C9_SiblingsUnseen ==
  /\ \A i \in 1..Len(messages) :
       messages[i].pos.unit \in {"architecture", "body"} =>
         \/ messages[i].related.unit \in {"entity", "package"}
         \/ messages[i].related.no = messages[i].pos.no
  /\ InClone =>
       \A x \in Names :
         LET s == Of(cadded, x) IN
         (Len(s) = 1 /\ s[1].pos.unit \in {"architecture", "body"}) =>
            NoMessage(s[1])

C9_ExtensionIsolated == [][C9_ParentUnchanged]_vars /\ []C9_SiblingsUnseen

\* the first architecture declared a name twice (one error); the second
\* architecture declares that name once, the entity does not have it, and
\* there still is that one error only
C9_Witness ==
  \E x \in Names :
    LET s == Of(cadded, x) IN
    /\ pc = "arch_decl"
    /\ x \notin DOMAIN region
    /\ Len(s) = 1
    /\ Len(messages) = 1
    /\ messages[1].designator = x
    /\ messages[1].pos.unit = "architecture"
    /\ messages[1].pos.no < s[1].pos.no

\* ---------------------------------------------------------------- C10
\* the step of add on the clone that made item it the entry of a name the
\* package has was the completion of a deferred constant
Completing(it) ==
  /\ it.designator \in DOMAIN region
  /\ clone[it.designator] = it

\* C10 as stated: every declaration of the package body that may not
\* overload, does not complete a deferred constant and whose name is in the
\* package's region has exactly one error related to the package's first
\* occurrence of the name, and the declaration that introduces a name the
\* package's region does not have has none.
C10_BodyRelatedToFirst ==
  pc = "body_decl" =>
    \A i \in 1..Len(SecondaryItems) :
      LET it == SecondaryItems[i]
          x == it.designator IN
      /\ (~it.may_overload /\ x \in DOMAIN region /\ ~Completing(it)) =>
            OneDuplicate(it, Of(added, x)[1])
      /\ (x \notin DOMAIN region
            /\ \A j \in 1..(i - 1) : SecondaryItems[j].designator # x) =>
            NoMessage(it)

\* C10 amended: the package's region holds the items of the generic clause
\* before those of the declarative part; every declaration of the body that
\* may not overload and whose name has an entry in the package's region that
\* is not a deferred constant has exactly one error, at the body's
\* occurrence and related to that entry, which is the package's first
\* non-deferred occurrence of the name; the first occurrence in the body of
\* a name that is not in the package's region has no diagnostic.
C10_BodyReported ==
  /\ \A i \in 1..Len(added) : \A j \in 1..Len(added) :
       (added[i].pos.unit = "package" /\ added[i].pos.part = "generic"
          /\ added[j].pos.part = "decl") => i < j
  /\ pc = "body_decl" =>
       \A i \in 1..Len(SecondaryItems) :
         LET it == SecondaryItems[i]
             x == it.designator IN
         /\ (~it.may_overload /\ x \in DOMAIN region
               /\ ~region[x].is_deferred) =>
               /\ it.pos.unit = "body"
               /\ OneDuplicate(it, region[x])
               /\ region[x] = FirstComplete(Of(added, x))
               /\ region[x].pos.unit = "package"
         /\ (x \notin DOMAIN region
               /\ \A j \in 1..(i - 1) : SecondaryItems[j].designator # x) =>
               NoMessage(it)

\* a generic and a declaration of the package and a declaration of the body
\* have one name: two errors, both related to the generic
C10_Witness ==
  \E x \in Names :
    LET s == Of(cadded, x) IN
    /\ pc = "body_decl"
    /\ Len(s) = 3
    /\ s[1].pos.part = "generic"
    /\ s[2].pos.unit = "package"
    /\ s[3].pos.unit = "body"
    /\ messages = << DuplicateDeclaration(s[2], s[1]),
                     DuplicateDeclaration(s[3], s[1]) >>

\* ----------------------------------------------------------------- C11
\* the Error diagnostics whose primary location is p
ErrorsAt(p) == SelectSeq(MsgsAt(p), LAMBDA m : m.severity = "Error")

\* C11: for every name of every library clause of the context clause of an
\* entity, an architecture, a package or a package body, a "No such
\* library" error is emitted at the name iff the name is neither std nor
\* work and the design root has no library of that name; std has no
\* diagnostic at all, whether or not the root holds a library named std.
C11_NoSuchLibrary ==
  \A i \in 1..Len(walked) :
    LET name == walked[i] IN
    /\ ErrorsAt(name.pos) =
         IF name.item \notin {"std", "work"} /\ ~has_library(root, name.item)
         THEN << NoSuchLibrary(name) >>
         ELSE << >>
    /\ name.item = "std" => MsgsAt(name.pos) = << >>

\* a missing library is named in the context clause of an architecture and
\* reported, and std is named while the root has no library std
C11_Witness ==
  /\ pc = "done"
  /\ \E i, j \in 1..Len(walked) :
       /\ walked[i].item = "lib"
       /\ walked[i].pos.unit = "architecture"
       /\ ~has_library(root, "lib")
       /\ MsgsAt(walked[i].pos) = << NoSuchLibrary(walked[i]) >>
       /\ walked[j].item = "std"
       /\ ~has_library(root, "std")
       /\ MsgsAt(walked[j].pos) = << >>

\* ----------------------------------------------------------------- C12
\* C12: every occurrence of work in a library clause has exactly one
\* diagnostic, the hint, and no error, whether or not the design root holds
\* a library named work.
C12_WorkHint ==
  \A i \in 1..Len(walked) :
    LET name == walked[i] IN
    name.item = "work" => MsgsAt(name.pos) = << LibraryHint(name) >>

\* work is named twice, in the context clause of a package body, while the
\* root has no library named work: two hints
C12_Witness ==
  /\ ~has_library(root, "work")
  /\ \E i, j \in 1..Len(walked) :
       /\ i < j
       /\ walked[i].item = "work"
       /\ walked[j].item = "work"
       /\ walked[j].pos.unit = "body"
       /\ MsgsAt(walked[i].pos) = << LibraryHint(walked[i]) >>
       /\ MsgsAt(walked[j].pos) = << LibraryHint(walked[j]) >>

\* ----------------------------------------------------------------- C14
\* every item read is in the region whatever was reported before it: the
\* names of a region are the names of the items added to it, the entry of a
\* name is its first item that is not deferred, and every later item of a
\* name whose first item is complete and may not overload has its error
EveryItemProcessed ==
  \A rh \in Regions :
    LET r == rh[1]
        h == rh[2] IN
    /\ DOMAIN r = { h[i].designator : i \in 1..Len(h) }
    /\ \A x \in DOMAIN r :
         LET s == Of(h, x) IN
         /\ r[x] = FirstComplete(s)
         /\ Plain(s[1]) => \A k \in 2..Len(s) : OneDuplicate(s[k], s[1])

\* what is left of the walk: the declarations and the design units the
\* bounds still allow, and the steps left in the current unit
Left ==
  100 * (MaxDecls - n) + 10 * (MaxArchs + 1 - nunits)
  + CASE pc = "library" -> 7
      [] pc \in {"generic", "pkg_generic"} -> 6
      [] pc \in {"port", "pkg_decl"} -> 5
      [] pc \in {"decl", "pkg_body"} -> 4
      [] pc \in {"arch_decl", "body_decl"} -> 3
      [] pc = "architectures" -> 2
      [] pc = "done" -> 0

C15_UnitsRecurse ==
  [][ (Scope = "part" /\ Head(stack).of \in UnitKinds /\ Scope' # "part")
      => \A i \in 1..Len(nested) :
           \E j \in 1..Len(stack') : stack'[j] = nested[i] ]_vars

\* ----------------------------------------------------------------- C16
\* the declarations read so far that contribute an item of designator x
Naming(x) ==
  { k \in 1..Len(walked) : Of(walked[k].items, x) # << >> }

\* the diagnostics about designator x
MsgsOf(x) == SelectSeq(messages, LAMBDA m : m.designator = x)

IncompleteType(d, x) ==
  d.kind = "Type" /\ d.def = "Incomplete" /\ d.ident = x

ProtectedBody(d, x) ==
  d.kind = "Type" /\ d.def = "ProtectedBody" /\ d.ident = x

\* a full type declaration of name x that has no literal of that name
FullType(d, x) ==
  /\ d.kind = "Type" /\ d.def \notin {"Incomplete", "ProtectedBody"}
  /\ d.ident = x
  /\ d.def = "Enumeration" => \A l \in 1..Len(d.literals) : d.literals[l] # x

\* C16: an incomplete type declaration and a protected type body contribute
\* no item; a declarative part in which an incomplete type and a full type
\* of the same name (in either order), or a protected type and its body,
\* are the only declarations of that name has no diagnostic about it, and
\* one in which two full types are the only declarations of a name has
\* exactly one error, at the second and related to the first.
C16_TypeCompletion ==
  pc = "declarative_part" =>
  /\ \A k \in 1..Len(walked) :
       (walked[k].decl.kind = "Type"
          /\ walked[k].decl.def \in {"Incomplete", "ProtectedBody"}) =>
          walked[k].items = << >>
  /\ \A x \in Names : \A i, j \in 1..Len(walked) :
       LET di == walked[i].decl
           dj == walked[j].decl IN
       /\ (IncompleteType(di, x) /\ FullType(dj, x) /\ Naming(x) = {j}) =>
             MsgsOf(x) = << >>
       /\ (ProtectedBody(di, x) /\ FullType(dj, x) /\ dj.def = "Protected"
             /\ Naming(x) = {j}) =>
             MsgsOf(x) = << >>
       /\ (i < j /\ FullType(di, x) /\ FullType(dj, x)
             /\ Naming(x) = {i, j}) =>
             MsgsOf(x) = << DuplicateDeclaration(walked[j].items[1],
                                                 walked[i].items[1]) >>

\* an incomplete type and then a full type of its name were read: no
\* diagnostic
C16_Witness ==
  /\ pc = "declarative_part"
  /\ Len(walked) = 2
  /\ IncompleteType(walked[1].decl, "a")
  /\ FullType(walked[2].decl, "a")
  /\ messages = << >>

\* ----------------------------------------------------------------- C17
\* two positions are in the same scope: the same list of the same
\* declaration, statement or unit
SameScope(p, q) == p.unit = q.unit /\ p.no = q.no /\ p.part = q.part

\* the items walked before the i-th one in its scope, with its designator
Earlier(i) ==
  SelectSeq(SubSeq(walked, 1, i - 1),
            LAMBDA it : /\ SameScope(it.pos, walked[i].pos)
                        /\ it.designator = walked[i].designator)

\* the i-th item walked collides with nothing but the first item of its
\* designator in its own scope, and is then reported exactly once
CheckedInOwnScope(i) ==
  MsgsAt(walked[i].pos) =
    IF /\ Earlier(i) # << >>
       /\ ~walked[i].may_overload \/ ~Earlier(i)[1].may_overload
    THEN << DuplicateDeclaration(walked[i], Earlier(i)[1]) >>
    ELSE << >>

BodyItems(x) == Of(SecondaryItems, x)

\* C19: when the package declares x once, as a deferred constant, and the
\* body declares x by complete declarations that may not overload, neither
\* the deferred constant nor the first declaration of the body has a
\* diagnostic, the first declaration of the body is the entry of x in the
\* clone while the package's region keeps the deferred constant, and every
\* further declaration of x in the body has exactly one error, related to
\* the first declaration of the body.
C19_BodyCompletesDeferred ==
  pc = "body_decl" =>
    \A x \in Names :
      LET p == Of(added, x)
          b == BodyItems(x) IN
      (/\ Len(p) = 1 /\ p[1].is_deferred
       /\ Len(b) >= 1 /\ \A i \in 1..Len(b) : Plain(b[i])) =>
         /\ NoMessage(p[1])
         /\ NoMessage(b[1])
         /\ region[x] = p[1]
         /\ clone[x] = b[1]
         /\ \A i \in 2..Len(b) : OneDuplicate(b[i], b[1])

\* a deferred constant of the package, completed in the body and declared
\* once more there: one error, related to the completion
C19_Witness ==
  \E x \in Names :
    LET p == Of(added, x)
        b == BodyItems(x) IN
    /\ pc = "body_decl"
    /\ Len(p) = 1 /\ p[1].is_deferred /\ p[1].pos.unit = "package"
    /\ Len(b) = 2 /\ Plain(b[1]) /\ Plain(b[2])
    /\ region[x] = p[1]
    /\ clone[x] = b[1]
    /\ messages = << DuplicateDeclaration(b[2], b[1]) >>

\* ----------------------------------------------------------------- C20
\* the declaration is an object declaration of class constant without an
\* expression, in a declarative part
DeferredConstant(d) ==
  /\ pc = "declarative_part"
  /\ d.kind = "Object" /\ d.class = "Constant" /\ ~d.expression

\* C20: an item is deferred iff it comes from an object declaration of
\* class constant without expression in a declarative part (never from an
\* interface declaration); when the first declaration of a name is a
\* deferred constant, the next item of that name, if it is not deferred,
\* has no diagnostic and is the entry of the name from then on, whatever
\* kind of declaration it comes from and with its own may_overload flag.
C20_CompletionIgnoresKind ==
  /\ \A k \in 1..Len(walked) : \A l \in 1..Len(walked[k].items) :
       walked[k].items[l].is_deferred <=> DeferredConstant(walked[k].decl)
  /\ \A x \in Names :
       LET s == Of(added, x) IN
       (Len(s) >= 2 /\ s[1].is_deferred /\ ~s[2].is_deferred) =>
          /\ NoMessage(s[2])
          /\ region[x] = s[2]
          /\ region[x].may_overload = s[2].may_overload

\* a deferred constant followed by a subprogram of its name: no diagnostic,
\* and the entry of the name may overload
C20_Witness ==
  /\ Len(walked) = 2
  /\ DeferredConstant(walked[1].decl)
  /\ walked[2].decl.kind = "SubprogramDeclaration"
  /\ walked[2].decl.ident = walked[1].decl.ident
  /\ messages = << >>
  /\ region[walked[1].decl.ident].may_overload
====
